---- MODULE Spec2Model ----
(***************************************************************************)
(* Model of tensorflow_datasets/image/sun.py: the image normalisation      *)
(* helpers (_decode_image, _encode_image, _process_image_file) and the     *)
(* example generator Sun397._generate_examples.                            *)
(*                                                                         *)
(* Strings are sequences of one-character strings, so that slicing,        *)
(* endswith, split and join are computed and not assumed.  A numpy array   *)
(* is represented by its shape (a sequence of dimension sizes): every      *)
(* branch of the code reads the shape only.  A file-like object is a cell  *)
(* of `heap` (content, cursor position, closed flag) named by its index.   *)
(***************************************************************************)
EXTENDS Integers, Sequences, FiniteSets, TLC

VARIABLES
  archive,   \* the (path, stream) entries handed to _generate_examples
  idx,       \* position of the archive iterator: index of the next entry
  pc,        \* generator state: suspended / running / done / failed / closed
  out,       \* the records yielded so far, in order
  src,       \* history: src[k] is the archive index out[k] was made from
  reads,     \* history: reads[i] counts the read() calls on entry i's stream
  raised,    \* the exception that ended the generator, "" if none
  heap,      \* the file-like objects (io.BytesIO) that exist
  call,      \* arguments of a direct call of a helper (SpecDecode, SpecEncode)
  ret        \* result of that call

vars == <<archive, idx, pc, out, src, reads, raised, heap, call, ret>>

(***************************************************************************)
(* Bounds of the model.                                                    *)
(***************************************************************************)
MaxEntries == 2   \* entries in an archive
MaxDim     == 2   \* height and width of a decoded image
MaxFrames  == 2   \* leading dimension of a 4-dimensional decoder result
MaxRank    == 5   \* rank of an array handed to the helpers
MaxBuf     == 3   \* prior content length of a caller-supplied buffer

(***************************************************************************)
(* Python strings.                                                         *)
(***************************************************************************)
\* s[n:]
DropPrefix(s, n) == SubSeq(s, n + 1, Len(s))

\* s.endswith(suffix)
EndsWith(s, suffix) ==
  /\ Len(s) >= Len(suffix)
  /\ SubSeq(s, Len(s) - Len(suffix) + 1, Len(s)) = suffix

\* s.split(sep) for a one-character separator: the list of the segments
RECURSIVE Split(_, _)
Split(s, sep) ==
  IF \A i \in DOMAIN s : s[i] # sep
    THEN <<s>>
    ELSE LET i == CHOOSE k \in DOMAIN s :
                    s[k] = sep /\ \A j \in 1..(k - 1) : s[j] # sep
         IN <<SubSeq(s, 1, i - 1)>> \o Split(SubSeq(s, i + 1, Len(s)), sep)

\* sep.join(parts)
RECURSIVE Join(_, _)
Join(sep, parts) ==
  IF Len(parts) = 0 THEN <<>>
  ELSE IF Len(parts) = 1 THEN parts[1]
  ELSE parts[1] \o <<sep>> \o Join(sep, Tail(parts))

\* parts[:-1]
AllButLast(parts) == SubSeq(parts, 1, Len(parts) - 1)

Root   == <<"S", "U", "N", "3", "9", "7">>
JpgExt == <<".", "j", "p", "g">>

\* prefix_len = len("SUN397")
prefix_len == Len(Root)

\* filename = filepath[prefix_len:]
FileName(filepath) == DropPrefix(filepath, prefix_len)

\* Mutant of Label: the last segment is kept ([:-1] forgotten).
Label_KeepsLeaf(filename) == Join("/", Split(filename, "/"))

\* label = "/".join(filename.split("/")[:-1])
Label(filename) == Join("/", AllButLast(Split(filename, "/")))

(***************************************************************************)
(* numpy shapes.                                                           *)
(***************************************************************************)
RECURSIVE Size(_)
Size(shape) == IF Len(shape) = 0 THEN 1 ELSE Head(shape) * Size(Tail(shape))

Ok(image)  == [ok |-> TRUE, err |-> "", image |-> image]
Fail(kind) == [ok |-> FALSE, err |-> kind, image |-> <<>>]

\* Mutant of Reshape: the size is not compared.
Reshape_Unchecked(shape, newshape) == Ok(newshape)

\* ndarray.reshape(newshape): numpy refuses a reshape that changes the size
Reshape(shape, newshape) ==
  IF Size(shape) = Size(newshape) THEN Ok(newshape) ELSE Fail("ValueError")

(***************************************************************************)
(* The two image decoders.  The bytes of a stream are represented by what  *)
(* each decoder makes of them: `cv2` is the result of cv2.imdecode (an     *)
(* array, None, or an exception) and `pil` the result of PIL.Image.open    *)
(* (an image with a mode and a size, or an exception).                     *)
(***************************************************************************)
Dims     == 1..MaxDim
Channels == {1, 3, 4}
Modes    == {"L", "P", "RGB", "RGBA"}

\* The shapes of rank r: (height, width) for rank 2, (..., height, width,
\* channels) above; a rank-4 shape leads with its frame count, 0 included.
ShapesOfRank(r) ==
  IF r = 0 THEN {<<>>}
  ELSE IF r = 1 THEN {<<n>> : n \in Dims}
  ELSE IF r = 2 THEN {<<h, w>> : h \in Dims, w \in Dims}
  ELSE IF r = 4
    THEN {<<f, h, w, c>> : f \in 0..MaxFrames, h \in Dims, w \in Dims, c \in Channels}
  ELSE {s \in [1..r -> Dims \cup Channels] :
          /\ s[r] \in Channels
          /\ \A i \in 1..(r - 1) : s[i] \in Dims}

Shapes == UNION {ShapesOfRank(r) : r \in 0..MaxRank}

NoShape == <<>>
Cv2Results ==
  {[kind |-> "None", shape |-> NoShape], [kind |-> "raise", shape |-> NoShape]}
  \cup {[kind |-> "array", shape |-> s] : s \in Shapes \ ShapesOfRank(0)}

PilResults ==
  {[kind |-> "raise", mode |-> "", h |-> 0, w |-> 0]}
  \cup {[kind |-> "image", mode |-> m, h |-> h, w |-> w] :
          m \in Modes, h \in Dims, w \in Dims}

Contents == [cv2 : Cv2Results, pil : PilResults]

\* cv2.imdecode(np.fromstring(buf, dtype=np.uint8), flags=3)
cv2_imdecode(buf) == buf.cv2

\* PIL_Image.open(io.BytesIO(buf))
PIL_Image_open(buf) == buf.pil

\* Mutant of convert: the image keeps its mode.
convert_Noop(image, mode) == image

\* image.convert("RGB")
convert(image, mode) == [image EXCEPT !.mode = mode]

\* np.array(image): the pixel grid of a PIL image, by its mode
np_array(image) ==
  IF image.mode \in {"L", "P"} THEN <<image.h, image.w>>
  ELSE IF image.mode = "RGB" THEN <<image.h, image.w, 3>>
  ELSE <<image.h, image.w, 4>>

\* lines 80-82: the fallback decoder
FallbackDecode(buf) ==
  LET image == PIL_Image_open(buf)
  IN IF image.kind = "raise" THEN Fail("IOError")
     ELSE Ok(np_array(convert(image, "RGB")))

\* lines 85-86: if len(image.shape) == 4: image = image.reshape(image.shape[1:])
SqueezeFrames(image) ==
  IF Len(image) = 4 THEN Reshape(image, Tail(image)) ELSE Ok(image)

\* _decode_image(fobj), after buf = fobj.read()
_decode_image(buf) ==
  LET first == cv2_imdecode(buf)
  IN IF first.kind = "raise" THEN Fail("cv2.error")
     ELSE LET image == IF first.kind = "None" THEN FallbackDecode(buf)
                       ELSE Ok(first.shape)
          IN IF ~image.ok THEN image ELSE SqueezeFrames(image.image)

(***************************************************************************)
(* File-like objects (io.BytesIO).                                         *)
(***************************************************************************)
Zeros(n) == [i \in 1..n |-> 0]

NewBytesIO == [content |-> <<>>, pos |-> 0, closed |-> FALSE]

\* fobj.write(data): overwrites from the cursor on, pads a cursor past the
\* end with zero bytes, keeps what lies behind the written bytes
Write(b, data) ==
  LET n    == Len(data)
      len  == Len(b.content)
      pre  == IF b.pos <= len THEN SubSeq(b.content, 1, b.pos)
              ELSE b.content \o Zeros(b.pos - len)
      post == SubSeq(b.content, b.pos + n + 1, len)
  IN [b EXCEPT !.content = pre \o data \o post, !.pos = b.pos + n]

\* Mutant of Seek0: the cursor stays behind the written bytes.
Seek0_Noop(b) == b

\* fobj.seek(0)
Seek0(b) == [b EXCEPT !.pos = 0]

(***************************************************************************)
(* The encoder.                                                            *)
(***************************************************************************)
Formats == {"None", "JPEG", "PNG"}

\* PIL_Image.fromarray(image): the mode PIL gives an array of this shape,
\* "" when it refuses the shape (a 3-dimensional single-channel array)
FromArrayMode(image) ==
  IF Len(image) = 2 THEN "L"
  ELSE IF Len(image) = 3 /\ image[3] = 3 THEN "RGB"
  ELSE IF Len(image) = 3 /\ image[3] = 4 THEN "RGBA"
  ELSE ""

\* The modes the writer of a format accepts (JPEG has no alpha channel).
Writable(mode, format) ==
  IF format = "JPEG" THEN mode \in {"L", "RGB"} ELSE mode \in {"L", "RGB", "RGBA"}

\* The bytes image.save writes: a marker byte for the format, then data
\* bytes whose number grows with the image.
EncodedBytes(image, format) ==
  [i \in 1..(1 + image[1] * image[2]) |->
     IF i = 1 THEN (IF format = "JPEG" THEN 216 ELSE 137) ELSE 1]

\* The result of _encode_image: the heap after the call, the object
\* returned (0: none), and the array handed to PIL_Image.fromarray.
EncResult(ok, err, h, f, handed, codec_in) ==
  [ok |-> ok, err |-> err, heap |-> h, fobj |-> f,
   handed |-> handed, codec_in |-> codec_in]

\* Mutant of ShapeCheck: any rank from 3 up passes.
ShapeCheck_AtLeast3(image) == Len(image) >= 3

\* lines 104-105: the shape check
ShapeCheck(image) == Len(image) = 3

\* Mutant of DropGrayChannel: the single channel dimension is kept.
DropGrayChannel_Noop(image) == image

\* lines 112-113: drop the channel dimension of a grayscale image
DropGrayChannel(image) ==
  IF image[Len(image)] = 1
    THEN Reshape(image, SubSeq(image, 1, Len(image) - 1)).image
    ELSE image

\* lines 115-119, given the array for the codec and the format
SaveAndRewind(h, image, format, fobj) ==
  LET h1   == IF fobj # 0 THEN h ELSE Append(h, NewBytesIO)
      f    == IF fobj # 0 THEN fobj ELSE Len(h1)
      mode == FromArrayMode(image)
  IN IF mode = "" THEN EncResult(FALSE, "TypeError", h1, 0, TRUE, image)
     ELSE IF ~Writable(mode, format)
       THEN EncResult(FALSE, "IOError", h1, 0, TRUE, image)
     ELSE IF h1[f].closed
       THEN EncResult(FALSE, "ValueError: closed file", h1, 0, TRUE, image)
     ELSE EncResult(TRUE, "",
                    [h1 EXCEPT ![f] = Seek0(Write(h1[f], EncodedBytes(image, format)))],
                    f, TRUE, image)

\* _encode_image(image, image_format=None, fobj=None) on heap h
_encode_image(h, image, image_format, fobj) ==
  IF ~ShapeCheck(image)
    THEN EncResult(FALSE, "ValueError: shape", h, 0, FALSE, NoShape)
    ELSE LET format == IF image_format = "None" THEN "JPEG" ELSE image_format
         IN SaveAndRewind(h, DropGrayChannel(image), format, fobj)

\* _process_image_file(fobj), after the stream was read
_process_image_file(h, buf) ==
  LET image == _decode_image(buf)
  IN IF ~image.ok
       THEN EncResult(FALSE, image.err, h, 0, FALSE, NoShape)
       ELSE _encode_image(h, image.image, "JPEG", 0)

(***************************************************************************)
(* The archives handed to the generator.  Every path lies under the root   *)
(* directory (line 170: "all files in the tar.gz are in SUN397/...").      *)
(***************************************************************************)
\* "/c/car_interior/backseat/sun_aenygxwhhmjtisnf.jpg" (the example of line 173)
ExampleName ==
  <<"/", "c", "/", "c", "a", "r", "_", "i", "n", "t", "e", "r", "i", "o", "r", "/", "b", "a", "c", "k", "s", "e", "a", "t", "/", "s", "u", "n", "_", "a", "e", "n", "y", "g", "x", "w", "h", "h", "m", "j", "t", "i", "s", "n", "f", ".", "j", "p", "g">>

\* "/c/car_interior/backseat" (line 174)
ExampleLabel ==
  <<"/", "c", "/", "c", "a", "r", "_", "i", "n", "t", "e", "r", "i", "o", "r", "/", "b", "a", "c", "k", "s", "e", "a", "t">>

Paths ==
  { Root \o ExampleName,                                    \* SUN397/c/.../sun_....jpg
    Root \o <<"/", "a", "/", "b", ".", "j", "p", "g">>,            \* SUN397/a/b.jpg
    Root \o <<"/", "b", ".", "j", "p", "g">>,                      \* SUN397/b.jpg
    Root \o <<"/", "a", "/", "/", "b", ".", "j", "p", "g">>,       \* SUN397/a//b.jpg
    Root \o <<"/", "a", "/", "b", ".", "t", "x", "t">>,            \* SUN397/a/b.txt
    Root \o <<"/", "a">>,                                          \* SUN397/a
    Root \o <<"/", "a", ".", "j", "p", "g", "/", "r">> }          \* SUN397/a.jpg/r

\* Streams: a JPEG; a grayscale PNG and a GIF only the fallback decodes; an
\* RGBA image the primary decoder hands back with 4 channels; bytes that are
\* no image; an empty stream.
Streams ==
  { [cv2 |-> [kind |-> "array", shape |-> <<1, 2, 3>>],
     pil |-> [kind |-> "image", mode |-> "RGB", h |-> 1, w |-> 2]],
    [cv2 |-> [kind |-> "None", shape |-> NoShape],
     pil |-> [kind |-> "image", mode |-> "L", h |-> 2, w |-> 1]],
    [cv2 |-> [kind |-> "None", shape |-> NoShape],
     pil |-> [kind |-> "image", mode |-> "P", h |-> 1, w |-> 1]],
    [cv2 |-> [kind |-> "array", shape |-> <<1, 1, 4>>],
     pil |-> [kind |-> "image", mode |-> "RGBA", h |-> 1, w |-> 1]],
    [cv2 |-> [kind |-> "None", shape |-> NoShape],
     pil |-> [kind |-> "raise", mode |-> "", h |-> 0, w |-> 0]],
    [cv2 |-> [kind |-> "raise", shape |-> NoShape],
     pil |-> [kind |-> "raise", mode |-> "", h |-> 0, w |-> 0]] }

Entries  == [path : Paths, fobj : Streams]
Archives == UNION {[1..n -> Entries] : n \in 0..MaxEntries}

NoCall == [fn |-> "none"]

(***************************************************************************)
(* Sun397._generate_examples(archive): a generator.  It runs only while    *)
(* its caller is inside next(); each step below handles one archive entry. *)
(***************************************************************************)
Init ==
  /\ archive \in Archives
  /\ idx = 1
  /\ pc = "suspended"
  /\ out = <<>>
  /\ src = <<>>
  /\ reads = [i \in DOMAIN archive |-> 0]
  /\ raised = ""
  /\ heap = <<>>
  /\ call = NoCall
  /\ ret = NoCall

\* The caller asks for the next record: next(generator).
CallNext ==
  /\ pc = "suspended"
  /\ pc' = "running"
  /\ UNCHANGED <<archive, idx, out, src, reads, raised, heap, call, ret>>

\* The caller stops iterating and drops the generator.
CallerStops ==
  /\ pc = "suspended"
  /\ pc' = "closed"
  /\ UNCHANGED <<archive, idx, out, src, reads, raised, heap, call, ret>>

\* line 168: the archive has no further entry; the generator returns.
Exhausted ==
  /\ pc = "running"
  /\ idx > Len(archive)
  /\ pc' = "done"
  /\ UNCHANGED <<archive, idx, out, src, reads, raised, heap, call, ret>>

\* Mutant of IsImagePath: ".jpg" anywhere in the path.
IsImagePath_Contains(filepath) ==
  \E i \in 1..(Len(filepath) - Len(JpgExt) + 1) :
    SubSeq(filepath, i, i + Len(JpgExt) - 1) = JpgExt

\* line 169: if filepath.endswith(".jpg")
IsImagePath(filepath) == EndsWith(filepath, JpgExt)

\* Mutant of SkipEntry: the stream is read before the suffix test.
SkipEntry_Reads ==
  /\ pc = "running"
  /\ idx <= Len(archive)
  /\ ~IsImagePath(archive[idx].path)
  /\ idx' = idx + 1
  /\ reads' = [reads EXCEPT ![idx] = @ + 1]
  /\ UNCHANGED <<archive, pc, out, src, raised, heap, call, ret>>

\* lines 168-169: an entry that fails the suffix test is passed over.
SkipEntry ==
  /\ pc = "running"
  /\ idx <= Len(archive)
  /\ ~IsImagePath(archive[idx].path)
  /\ idx' = idx + 1
  /\ UNCHANGED <<archive, pc, out, src, reads, raised, heap, call, ret>>

\* lines 171-181: the record of an entry, given the encoded image object
Record(filepath, image) ==
  LET filename == FileName(filepath)
  IN [file_name |-> filename, image |-> image, label |-> Label(filename)]

\* Mutant of ProcessEntry: return in place of yield, the pass ends with
\* its first record.
ProcessEntry_Return ==
  /\ pc = "running"
  /\ idx <= Len(archive)
  /\ IsImagePath(archive[idx].path)
  /\ LET r == _process_image_file(heap, archive[idx].fobj)
     IN /\ reads' = [reads EXCEPT ![idx] = @ + 1]
        /\ heap' = r.heap
        /\ IF r.ok
             THEN /\ out' = Append(out, Record(archive[idx].path, r.fobj))
                  /\ src' = Append(src, idx)
                  /\ idx' = idx + 1
                  /\ pc' = "done"
                  /\ UNCHANGED raised
             ELSE /\ raised' = r.err
                  /\ pc' = "failed"
                  /\ UNCHANGED <<out, src, idx>>
  /\ UNCHANGED <<archive, call, ret>>

\* Mutant of ProcessEntry: the exception is caught and the entry passed over.
ProcessEntry_SkipsFailure ==
  /\ pc = "running"
  /\ idx <= Len(archive)
  /\ IsImagePath(archive[idx].path)
  /\ LET r == _process_image_file(heap, archive[idx].fobj)
     IN /\ reads' = [reads EXCEPT ![idx] = @ + 1]
        /\ heap' = r.heap
        /\ idx' = idx + 1
        /\ IF r.ok
             THEN /\ out' = Append(out, Record(archive[idx].path, r.fobj))
                  /\ src' = Append(src, idx)
                  /\ pc' = "suspended"
             ELSE UNCHANGED <<out, src, pc>>
  /\ UNCHANGED <<archive, raised, call, ret>>

\* lines 169-181: an entry that passes the suffix test: its stream is read,
\* decoded and re-encoded; the record is yielded, or the exception of
\* _process_image_file leaves the generator.
ProcessEntry ==
  /\ pc = "running"
  /\ idx <= Len(archive)
  /\ IsImagePath(archive[idx].path)
  /\ LET r == _process_image_file(heap, archive[idx].fobj)
     IN /\ reads' = [reads EXCEPT ![idx] = @ + 1]
        /\ heap' = r.heap
        /\ IF r.ok
             THEN /\ out' = Append(out, Record(archive[idx].path, r.fobj))
                  /\ src' = Append(src, idx)
                  /\ idx' = idx + 1
                  /\ pc' = "suspended"
                  /\ UNCHANGED raised
             ELSE /\ raised' = r.err
                  /\ pc' = "failed"
                  /\ UNCHANGED <<out, src, idx>>
  /\ UNCHANGED <<archive, call, ret>>

Next == CallNext \/ CallerStops \/ Exhausted \/ SkipEntry \/ ProcessEntry

Spec == Init /\ [][Next]_vars

(***************************************************************************)
(* Direct calls of the helpers, on every input within the bounds.          *)
(***************************************************************************)
Idle ==
  /\ archive = <<>>
  /\ idx = 1
  /\ out = <<>>
  /\ src = <<>>
  /\ reads = <<>>
  /\ raised = ""

\* _decode_image(fobj) on a stream with any content
InitDecode ==
  /\ Idle
  /\ heap = <<>>
  /\ pc = "call"
  /\ call \in [fn : {"_decode_image"}, buf : Contents]
  /\ ret = NoCall

DecodeCall ==
  /\ pc = "call"
  /\ call.fn = "_decode_image"
  /\ LET r == _decode_image(call.buf)
     IN /\ ret' = r
        /\ raised' = r.err
        /\ pc' = IF r.ok THEN "returned" ELSE "raised"
  /\ UNCHANGED <<archive, idx, out, src, reads, heap, call>>

NextDecode == DecodeCall

SpecDecode == InitDecode /\ [][NextDecode]_vars

\* The buffers a caller may hold: any content length up to MaxBuf, the
\* cursor anywhere up to one past the end, open or closed.
Buffers ==
  [content : {Zeros(n) : n \in 0..MaxBuf}, pos : 0..(MaxBuf + 1), closed : BOOLEAN]

\* _encode_image(image, image_format, fobj): any array, any format, fobj
\* None (0) or an existing buffer
InitEncode ==
  /\ Idle
  /\ heap \in {<<>>} \cup {<<b>> : b \in Buffers}
  /\ pc = "call"
  /\ call \in [fn : {"_encode_image"}, image : Shapes, image_format : Formats,
               fobj : {0} \cup DOMAIN heap]
  /\ ret = NoCall

EncodeCall ==
  /\ pc = "call"
  /\ call.fn = "_encode_image"
  /\ LET r == _encode_image(heap, call.image, call.image_format, call.fobj)
     IN /\ ret' = r
        /\ heap' = r.heap
        /\ raised' = r.err
        /\ pc' = IF r.ok THEN "returned" ELSE "raised"
  /\ UNCHANGED <<archive, idx, out, src, reads, call>>

NextEncode == EncodeCall

SpecEncode == InitEncode /\ [][NextEncode]_vars

(***************************************************************************)
(* Properties of the generator (specification Spec).                       *)
(***************************************************************************)
\* The path ends with the four characters . j p g
HasJpgSuffix(p) ==
  /\ Len(p) >= 4
  /\ p[Len(p) - 3] = "."
  /\ p[Len(p) - 2] = "j"
  /\ p[Len(p) - 1] = "p"
  /\ p[Len(p)] = "g"

\* The indices of the first n archive entries whose path ends with ".jpg",
\* in archive order
MatchingIndices(n) ==
  LET Matches(i) == HasJpgSuffix(archive[i].path)
  IN SelectSeq([i \in 1..n |-> i], Matches)

\* The stream decodes and encodes without failure
Processable(fobj) == _process_image_file(<<>>, fobj).ok

Range(f) == {f[i] : i \in DOMAIN f}

\* C1: at every point of a generation pass, every record yielded so far
\* comes from an entry whose path ends with ".jpg"; an entry without the
\* suffix that the pass has gone by has produced no record.
C1_OnlyJpgEntriesYielded ==
  /\ Len(src) = Len(out)
  /\ \A k \in DOMAIN out : HasJpgSuffix(archive[src[k]].path)
  /\ \A i \in DOMAIN archive : ~HasJpgSuffix(archive[i].path) => i \notin Range(src)

\* A finished pass that yielded a record and went by an entry without the suffix
C1_Witness ==
  /\ pc = "done"
  /\ Len(out) >= 1
  /\ \E i \in DOMAIN archive : ~HasJpgSuffix(archive[i].path)

\* C2: when every ".jpg" entry decodes and encodes, the pass never fails,
\* and once exhausted it has yielded exactly one record per ".jpg" entry,
\* the i-th record made from the i-th such entry in archive order.
C2_AllMatchingEntriesInOrder ==
  LET all == MatchingIndices(Len(archive))
  IN (\A i \in Range(all) : Processable(archive[i].fobj)) =>
       /\ pc # "failed"
       /\ pc = "done" =>
            /\ Len(out) = Len(all)
            /\ src = all
            /\ \A k \in DOMAIN out :
                 Root \o out[k].file_name = archive[all[k]].path

\* An exhausted pass over two different ".jpg" entries
C2_Witness ==
  /\ pc = "done"
  /\ Len(out) = 2
  /\ out[1].file_name # out[2].file_name

\* label is the directory part of file_name: file_name is label, "/", and a
\* last segment without "/" (label is empty when file_name holds no "/")
IsDirectoryOf(label, file_name) ==
  IF \A j \in DOMAIN file_name : file_name[j] # "/"
    THEN label = <<>>
    ELSE /\ Len(label) < Len(file_name)
         /\ SubSeq(file_name, 1, Len(label)) = label
         /\ file_name[Len(label) + 1] = "/"
         /\ \A j \in (Len(label) + 2)..Len(file_name) : file_name[j] # "/"

\* C3: for every yielded record, "SUN397" followed by file_name is the
\* entry's path, and label is the directory part of file_name; the path
\* SUN397/c/car_interior/backseat/sun_aenygxwhhmjtisnf.jpg gives the label
\* /c/car_interior/backseat.
C3_FileNameAndLabel ==
  \A k \in DOMAIN out :
    LET path == archive[src[k]].path
    IN /\ Root \o out[k].file_name = path
       /\ IsDirectoryOf(out[k].label, out[k].file_name)
       /\ path = Root \o ExampleName =>
            out[k].label = ExampleLabel /\ out[k].file_name = ExampleName

\* The record of the example path has been yielded
C3_Witness ==
  \E k \in DOMAIN out :
    /\ archive[src[k]].path = Root \o ExampleName
    /\ out[k].label = ExampleLabel

\* C4: a ".jpg" entry whose content cannot be decoded or encoded stops the
\* pass at that entry: the pass never goes beyond it and never completes,
\* it yields no record for it, and once the pass has failed the exception
\* is set, the iterator stands at the failing entry and the records are
\* exactly those of the ".jpg" entries before it.
C4_FailureAbortsPass ==
  /\ \A i \in DOMAIN archive :
       (HasJpgSuffix(archive[i].path) /\ ~Processable(archive[i].fobj)) =>
         /\ idx <= i
         /\ i \notin Range(src)
         /\ pc # "done"
  /\ pc = "failed" =>
       /\ raised # ""
       /\ idx \in DOMAIN archive
       /\ HasJpgSuffix(archive[idx].path)
       /\ ~Processable(archive[idx].fobj)
       /\ src = MatchingIndices(idx - 1)
       /\ Len(out) = Len(src)

\* A pass that failed on undecodable bytes after yielding a record
C4_Witness ==
  /\ pc = "failed"
  /\ Len(out) = 1
  /\ archive[idx].fobj.cv2.kind = "None"
  /\ archive[idx].fobj.pil.kind = "raise"

\* What holds of the stream reads in every state
ReadsInv ==
  \A i \in DOMAIN archive :
    /\ reads[i] <= 1
    /\ ~HasJpgSuffix(archive[i].path) => reads[i] = 0
    /\ i \in Range(src) => reads[i] = 1
    /\ i > idx => reads[i] = 0
    /\ (pc \in {"suspended", "closed"} /\ i >= idx) => reads[i] = 0

\* C9: a stream is read only while the caller is inside next(); the stream
\* of a ".jpg" entry is read once, and has been read when its record is
\* yielded; the stream of any other entry is never read; while the
\* generator is suspended, and after the caller stopped, no entry from the
\* iterator's position on has been read.
C9_PullBasedSingleRead ==
  /\ []ReadsInv
  /\ [][(reads' # reads \/ out' # out) => pc = "running"]_vars

\* The caller stopped after one record, with a ".jpg" entry left unread
C9_Witness ==
  /\ pc = "closed"
  /\ Len(out) = 1
  /\ idx \in DOMAIN archive
  /\ HasJpgSuffix(archive[idx].path)
  /\ reads[idx] = 0

(***************************************************************************)
(* Properties of _decode_image (specification SpecDecode).                 *)
(***************************************************************************)
IsRgbGrid(image) == Len(image) = 3 /\ image[3] = 3

C6_ShapeErrorBeforeAnyBuffer ==
  [][(pc = "call" /\ Len(call.image) # 3) =>
       /\ pc' = "raised"
       /\ raised' = "ValueError: shape"
       /\ ~ret'.handed
       /\ heap' = heap]_vars

\* A rank-4 array was refused while the caller's buffer held content
C6_Witness ==
  /\ pc = "raised"
  /\ raised = "ValueError: shape"
  /\ Len(call.image) = 4
  /\ call.fobj # 0
  /\ Len(heap[call.fobj].content) > 0
  /\ heap[call.fobj].pos > 0

\* The number of bytes the codec wrote for this call
EncodedSize(r, image_format) ==
  Len(EncodedBytes(r.codec_in, IF image_format = "None" THEN "JPEG" ELSE image_format))

Max(a, b) == IF a >= b THEN a ELSE b

\* C7 as stated: whenever _encode_image returns a buffer, new or supplied
\* with any content and cursor, its cursor is 0, its content length is the
\* encoded size, and a supplied buffer is returned itself, not closed.
C7_LengthIsEncodedSize ==
  [][(pc = "call" /\ pc' = "returned") =>
       LET f == ret'.fobj
       IN /\ call.fobj # 0 => f = call.fobj
          /\ heap'[f].pos = 0
          /\ ~heap'[f].closed
          /\ Len(heap'[f].content) = EncodedSize(ret', call.image_format)]_vars

\* C7, amended: whenever _encode_image returns a buffer, its cursor is 0,
\* it is not closed, and a supplied buffer is returned itself; the encoded
\* bytes lie from the buffer's prior cursor p on, and the content length is
\* the larger of the prior length and p plus the encoded size: the encoded
\* size for a new buffer, and for a supplied one whose prior content does
\* not reach beyond it and whose cursor is 0.
C7_RewoundAndWrittenAtCursor ==
  [][(pc = "call" /\ pc' = "returned") =>
       LET f     == ret'.fobj
           fresh == call.fobj = 0
           p     == IF fresh THEN 0 ELSE heap[f].pos
           len   == IF fresh THEN 0 ELSE Len(heap[f].content)
           n     == EncodedSize(ret', call.image_format)
       IN /\ IF fresh THEN f = Len(heap) + 1 ELSE f = call.fobj
          /\ heap'[f].pos = 0
          /\ ~heap'[f].closed
          /\ Len(heap'[f].content) = Max(len, p + n)
          /\ \A i \in 1..n : heap'[f].content[p + i] # 0
          /\ (p = 0 /\ len <= n) <=> Len(heap'[f].content) = n
          /\ \A g \in DOMAIN heap : g # f => heap'[g] = heap[g]]_vars

\* An image was written into a supplied buffer whose content was longer
\* than the encoded image, from a cursor past the start
C7_Witness ==
  /\ pc = "returned"
  /\ call.fobj # 0
  /\ ret.fobj = call.fobj
  /\ heap[ret.fobj].content[1] = 0
  /\ Len(heap[ret.fobj].content) > EncodedSize(ret, call.image_format)

\* C10: for a rank-3 array, the array handed to the codec is (height,
\* width) when the channel count is 1, and then no codec error is raised;
\* it is the array itself when the channel count is not 1.
C10_GrayChannelDropped ==
  (pc # "call" /\ Len(call.image) = 3) =>
    /\ ret.handed
    /\ call.image[3] = 1 =>
         /\ ret.codec_in = <<call.image[1], call.image[2]>>
         /\ ret.err \notin {"TypeError", "IOError"}
    /\ call.image[3] # 1 => ret.codec_in = call.image

\* A grayscale (H, W, 1) array was encoded
C10_Witness ==
  /\ pc = "returned"
  /\ Len(call.image) = 3
  /\ call.image[3] = 1
  /\ Len(ret.codec_in) = 2

====
